---- MODULE Spec2Model ----
\* Model of DB::KafkaConsumer2 (src/Storages/Kafka/KafkaConsumer2.cpp):
\* the rebalance callbacks, the queue set, the batch buffer with its cursor,
\* the stall status, consume, commit, pollEvents and updateOffsets.
EXTENDS Integers, Sequences, FiniteSets, TLC

\* ---------------------------------------------------------------- bounds
\* batch_size given to the constructor: the most messages one pull returns
BatchSize == 2
\* messages the broker produces in one behaviour (message ids are 1..MaxMsgId)
MaxMsgId == 3
\* the steady clock is read in steps of ClockTickMs milliseconds, and between two
\* reads of the drain loop it advances by 1..MaxPollTicks steps
ClockTickMs == 50
MaxPollTicks == 2

\* ------------------------------------------------------------ constants
\* max_tries of pollEvents
max_tries == 5
\* max_retries of commit
max_retries == 5
\* DRAIN_TIMEOUT_MS
DRAIN_TIMEOUT_MS == 5000

\* ------------------------------------------------------------ data model
\* a TopicPartition that names no partition
NoTopicPartition == [topic |-> "", partition_id |-> -1, offset |-> -1]

\* std::optional<TopicPartitions>: std::nullopt and a held list
Nullopt == [has_value |-> FALSE, value |-> <<>>]
Some(l) == [has_value |-> TRUE, value |-> l]

\* (topic, partition_id) pairs of the subscribed topic
Topics == {"t"}
PartitionIds == {0, 1}
Offsets == {0, 1}

\* KafkaConsumer2::TopicPartition {topic, partition_id, offset}
TopicPartition == [topic : Topics, partition_id : PartitionIds, offset : Offsets]

\* equality on (topic, partition_id) only, the offset is not compared
SamePartition(a, b) == a.topic = b.topic /\ a.partition_id = b.partition_id

\* offsets the broker puts in the lists of the rebalance callbacks, and offsets
\* the caller puts in the arguments of updateOffsets, consume and commit
BrokerOffsets == {0}
CallerOffsets == {1}

\* partition lists with the offsets of `offsets`: no partition twice, in the
\* order of the partition ids
TopicPartitionLists(offsets) ==
    {l \in UNION {[1..n -> TopicPartition] : n \in 0..Cardinality(PartitionIds)} :
        /\ \A i \in 1..Len(l) : l[i].offset \in offsets
        /\ \A i, j \in 1..Len(l) : i < j => l[i].partition_id < l[j].partition_id}

\* the lists the broker hands to the assignment callback
BrokerLists == TopicPartitionLists(BrokerOffsets)

\* the lists the caller hands to updateOffsets
CallerLists == TopicPartitionLists(CallerOffsets)

\* the arguments of consume
CallerPartitions == {tp \in TopicPartition : tp.offset \in CallerOffsets}

\* (topic, partition_id) of the entries of a list or of a set of keys
PartsOfList(l) == {<<l[i].topic, l[i].partition_id>> : i \in 1..Len(l)}
PartsOfKeys(ks) == {<<k.topic, k.partition_id>> : k \in ks}

StalledStatus == {"NOT_STALLED", "NO_MESSAGES_RETURNED", "CONSUMER_STOPPED", "ERRORS_RETURNED"}

\* a raw broker message is a record of its topic and partition_id, its payload
\* (named by id, 1..MaxMsgId) and whether it carries a delivery error (err)

\* the batches a pull of the queue of tp can return when the broker's next
\* message is `first` and at most `n` messages are asked for
Batches(tp, first, n) ==
    UNION {{[i \in 1..k |-> [topic |-> tp.topic, partition_id |-> tp.partition_id,
                              id |-> first + i - 1, err |-> e[i]]] :
               e \in [1..k -> BOOLEAN]} :
           k \in 0..n}

IdsOf(msgs) == {msgs[i].id : i \in 1..Len(msgs)}
GoodIdsOf(msgs) == {msgs[i].id : i \in {j \in 1..Len(msgs) : ~msgs[j].err}}

VARIABLES
    assignment,           \* std::optional<TopicPartitions>
    needs_offset_update,  \* bool
    queues,               \* keys of the map TopicPartition -> cppkafka::Queue
    messages,             \* the polled batch
    current,              \* cursor into messages, Len(messages)+1 is messages.end()
    stalled_status,       \* StalledStatus
    stopped,              \* the shared stop flag
    pc,                   \* "idle", "pull" (consume blocked in consume_batch), "events" (inside pollEvents)
    tries,                \* loop index of pollEvents
    nextId,               \* id of the next message the broker produces
    lastCall,             \* the operation in flight or, when idle, the last one: what it did
    hist,                 \* history of the callbacks and of the messages pulled and returned
    commit_answers,       \* what the client answers to the consumer->commit calls of one commit
    teardown              \* the destructor: its position, the locals of drainConsumerQueue, the clock

vars == <<assignment, needs_offset_update, queues, messages, current, stalled_status,
          stopped, pc, tries, nextId, lastCall, hist, commit_answers, teardown>>

\* what only the commit and the destructor specifications change
client == <<commit_answers, teardown>>

NoCall == [op |-> "none",            \* the operation
           tp |-> NoTopicPartition,  \* the partition consume was called with
           count |-> 0,              \* the message_count of the consume blocked in consume_batch
           list |-> <<>>,            \* the list updateOffsets was called with
           stopEntry |-> FALSE,      \* the stop flag as consume read it at entry
           afterStall |-> FALSE,     \* the call before this consume was a consume for another
                                     \* partition whose pull returned no message or only errors
           pulled |-> FALSE,         \* consume_batch returned to consume
           new |-> <<>>,             \* the batch consume_batch returned
           stopCheck |-> FALSE,      \* the stop flag as consume read it after the pull
           ret |-> 0,                \* the payload consume returned, 0 for nullptr
           threw |-> FALSE,          \* queues.at threw
           attempts |-> 0,           \* the consumer->commit calls commit made
           signal |-> "none"]        \* the profile event commit incremented

Call(op) == [NoCall EXCEPT !.op = op]

NoHist == [lastChange |-> "none",   \* the last assignment change: "assigned" or "revoked"
           updated |-> FALSE,       \* updateOffsets ran since the last assignment change
           stale |-> FALSE,         \* the batch is the one that was current at the last revocation
           kept |-> {}]             \* non-error messages of the pulls that replaced the batch,
                                    \* not yet returned and not cleared by initializeQueues

\* the destructor has not been entered
NoTeardown == [pc |-> "alive",        \* "alive", "unsubscribe", "poll", "done"
               elapsed |-> 0,         \* ms on the steady clock since start_time
               last_error |-> "NO_ERROR",
               msg |-> "none",        \* what the last consumer->poll of the drain returned
               ended |-> "none",      \* the break or return that ended the destructor
               escaped |-> FALSE]     \* an exception left the destructor

\* ------------------------------------------------------------- construction
\* needs_offset_update and stalled_status get their first value from the class
\* declaration, so every value is allowed here
Init ==
    /\ assignment = Nullopt
    /\ needs_offset_update \in BOOLEAN
    /\ queues = {}
    /\ messages = <<>>
    /\ current = 1
    /\ stalled_status \in StalledStatus
    /\ stopped = FALSE
    /\ pc = "idle"
    /\ tries = 0
    /\ nextId = 1
    /\ lastCall = NoCall
    /\ hist = NoHist
    /\ commit_answers = <<>>
    /\ teardown = NoTeardown

\* ------------------------------------------------------------------ helpers
\* resetIfStopped that does not look at the stop flag and always stops
resetIfStoppedAlways(status) == "CONSUMER_STOPPED"

\* resetIfStopped that never looks at the stop flag
resetIfStoppedNever(status) == status

\* KafkaConsumer2::resetIfStopped: the status it leaves, given the status before
resetIfStopped(status) == IF stopped THEN "CONSUMER_STOPPED" ELSE status

\* polledDataUnusable that compares the topic and not the partition
polledDataUnusableTopicOnly(topic_partition) ==
    IF current = Len(messages) + 1
    THEN FALSE
    ELSE messages[current].topic # topic_partition.topic

\* polledDataUnusable with && for ||
polledDataUnusableAnd(topic_partition) ==
    IF current = Len(messages) + 1
    THEN FALSE
    ELSE /\ messages[current].topic # topic_partition.topic
         /\ messages[current].partition_id # topic_partition.partition_id

\* KafkaConsumer2::polledDataUnusable
polledDataUnusable(topic_partition) ==
    IF current = Len(messages) + 1
    THEN FALSE
    ELSE \/ messages[current].topic # topic_partition.topic
         \/ messages[current].partition_id # topic_partition.partition_id

\* KafkaConsumer2::hasMorePolledMessages (declared in the class header): the
\* cursor has remaining entries
hasMorePolledMessages == current # Len(messages) + 1

\* getNextMessage without its ++current
getNextMessageNoAdvance(msgs, cur) ==
    IF cur # Len(msgs) + 1
    THEN [ret |-> msgs[cur].id, current |-> cur]
    ELSE [ret |-> 0, current |-> cur]

\* KafkaConsumer2::getNextMessage on a batch and a cursor: the payload returned
\* (0 for nullptr) and the cursor afterwards
getNextMessage(msgs, cur) ==
    IF cur # Len(msgs) + 1
    THEN [ret |-> msgs[cur].id, current |-> cur + 1]
    ELSE [ret |-> 0, current |-> cur]

\* an erase that drops everything from the first message with an error on
EraseErrorsFromFirstError(msgs) ==
    SubSeq(msgs, 1, Cardinality({i \in 1..Len(msgs) : \A j \in 1..i : ~msgs[j].err}))

\* the std::erase_if with its predicate inverted
EraseErrorsInverted(msgs) == SelectSeq(msgs, LAMBDA m : m.err)

\* the std::erase_if of filterMessageErrors: the messages without a delivery error
EraseErrors(msgs) == SelectSeq(msgs, LAMBDA m : ~m.err)

\* filterMessageErrors that leaves the cursor at messages.end() after an erase
filterMessageErrorsCursorAtEnd(msgs, cur) ==
    LET kept == EraseErrors(msgs)
        skipped == Len(msgs) - Len(kept)
    IN [messages |-> kept, current |-> IF skipped > 0 THEN Len(kept) + 1 ELSE cur,
        skipped |-> skipped]

\* KafkaConsumer2::filterMessageErrors on a batch and a cursor
filterMessageErrors(msgs, cur) ==
    LET kept == EraseErrors(msgs)
        skipped == Len(msgs) - Len(kept)
    IN [messages |-> kept, current |-> IF skipped > 0 THEN 1 ELSE cur, skipped |-> skipped]

\* queues.emplace(key, queue): no effect when an equal key is already there
Emplace(ks, k) == IF \E q \in ks : SamePartition(q, k) THEN ks ELSE ks \cup {k}

RECURSIVE EmplaceAll(_, _)
EmplaceAll(ks, l) == IF l = <<>> THEN ks ELSE EmplaceAll(Emplace(ks, Head(l)), Tail(l))

\* queues[key] for queues.at(key): an entry is made when there is none
HasQueueOrInsert(ks, topic_partition) == TRUE

\* queues.at(key) finds an entry
HasQueue(ks, topic_partition) == \E q \in ks : SamePartition(q, topic_partition)

\* the TopicPartition{get_topic(), get_partition(), get_offset()} built for
\* each entry of a cppkafka::TopicPartitionList, and the reverse in updateOffsets
ConvertList(topic_partitions) ==
    [i \in 1..Len(topic_partitions) |->
        [topic |-> topic_partitions[i].topic,
         partition_id |-> topic_partitions[i].partition_id,
         offset |-> topic_partitions[i].offset]]

\* initializeQueues without its messages.clear()
initializeQueuesKeepBatch(topic_partitions) ==
    [queues |-> EmplaceAll({}, ConvertList(topic_partitions)),
     messages |-> messages, current |-> current]

\* initializeQueues without its queues.clear()
initializeQueuesNoClear(topic_partitions) ==
    [queues |-> EmplaceAll(queues, ConvertList(topic_partitions)),
     messages |-> <<>>, current |-> 1]

\* KafkaConsumer2::initializeQueues: the queue set, batch and cursor it leaves
initializeQueues(topic_partitions) ==
    [queues |-> EmplaceAll({}, ConvertList(topic_partitions)),
     messages |-> <<>>, current |-> 1]

\* ------------------------------------------------------- rebalance callbacks
\* the fields the assignment callback writes
assignment_callback(topic_partitions) ==
    LET q == initializeQueues(topic_partitions) IN
    [assignment |-> Some(ConvertList(topic_partitions)), needs_offset_update |-> TRUE,
     queues |-> q.queues, messages |-> q.messages, current |-> q.current]

\* the revocation callback without its queues.clear()
revocation_callback_no_clear ==
    [assignment |-> Nullopt, queues |-> queues, needs_offset_update |-> TRUE]

\* the revocation callback without its assignment.reset()
revocation_callback_no_reset ==
    [assignment |-> assignment, queues |-> {}, needs_offset_update |-> TRUE]

\* the revocation callback without its needs_offset_update = true
revocation_callback_no_flag ==
    [assignment |-> Nullopt, queues |-> {}, needs_offset_update |-> needs_offset_update]

\* the fields the revocation callback writes
revocation_callback ==
    [assignment |-> Nullopt, queues |-> {}, needs_offset_update |-> TRUE]

\* the assignment callback, run inside a poll of pollEvents
AssignmentCallback(topic_partitions) ==
    /\ pc = "events"
    /\ LET after == assignment_callback(topic_partitions) IN
        /\ assignment' = after.assignment
        /\ needs_offset_update' = after.needs_offset_update
        /\ queues' = after.queues
        /\ messages' = after.messages
        /\ current' = after.current
    /\ hist' = [hist EXCEPT !.lastChange = "assigned", !.updated = FALSE, !.stale = FALSE,
                            !.kept = @ \ IdsOf(messages)]
    /\ UNCHANGED <<stalled_status, stopped, pc, tries, nextId, lastCall>>
    /\ UNCHANGED client

\* the revocation callback, run inside a poll of pollEvents
RevocationCallback ==
    /\ pc = "events"
    /\ LET after == revocation_callback IN
        /\ assignment' = after.assignment
        /\ queues' = after.queues
        /\ needs_offset_update' = after.needs_offset_update
    /\ hist' = [hist EXCEPT !.lastChange = "revoked", !.updated = FALSE,
                            !.stale = (messages # <<>>)]
    /\ UNCHANGED <<messages, current, stalled_status, stopped, pc, tries, nextId, lastCall>>
    /\ UNCHANGED client

\* ----------------------------------------------------------------- pollEvents
\* pollEvents is entered: the loop starts with i = 0
PollEventsBegin ==
    /\ pc = "idle"
    /\ pc' = "events"
    /\ tries' = 0
    /\ lastCall' = Call("pollEvents")
    /\ UNCHANGED <<assignment, needs_offset_update, queues, messages, current, stalled_status,
                   stopped, nextId, hist>>
    /\ UNCHANGED client

\* one consumer->poll of the loop returns: no message ends pollEvents, a message
\* is logged and the loop goes on while i < max_tries
PollEventsPoll(msg) ==
    /\ pc = "events"
    /\ IF msg = "none" \/ tries + 1 >= max_tries
       THEN /\ pc' = "idle"
            /\ tries' = 0
       ELSE /\ pc' = "events"
            /\ tries' = tries + 1
    /\ UNCHANGED <<assignment, needs_offset_update, queues, messages, current, stalled_status,
                   stopped, nextId, lastCall, hist>>
    /\ UNCHANGED client

\* ---------------------------------------------------------------- updateOffsets
\* updateOffsets without its stalled_status = NOT_STALLED
updateOffsetsKeepStatus(topic_partitions) ==
    LET q == initializeQueues(ConvertList(topic_partitions)) IN
    [queues |-> q.queues, messages |-> q.messages, current |-> q.current,
     needs_offset_update |-> FALSE, stalled_status |-> stalled_status]

\* the fields updateOffsets writes
updateOffsets(topic_partitions) ==
    LET q == initializeQueues(ConvertList(topic_partitions)) IN
    [queues |-> q.queues, messages |-> q.messages, current |-> q.current,
     needs_offset_update |-> FALSE, stalled_status |-> "NOT_STALLED"]

UpdateOffsets(topic_partitions) ==
    /\ pc = "idle"
    /\ LET after == updateOffsets(topic_partitions) IN
        /\ queues' = after.queues
        /\ messages' = after.messages
        /\ current' = after.current
        /\ needs_offset_update' = after.needs_offset_update
        /\ stalled_status' = after.stalled_status
    /\ lastCall' = [Call("updateOffsets") EXCEPT !.list = topic_partitions]
    /\ hist' = [hist EXCEPT !.updated = TRUE, !.stale = FALSE, !.kept = @ \ IdsOf(messages)]
    /\ UNCHANGED <<assignment, stopped, pc, tries, nextId>>
    /\ UNCHANGED client

\* -------------------------------------------------------------------- consume
\* consume from its entry to the call of consume_batch, or to its return when it
\* returns or throws before that
ConsumeBegin(topic_partition, message_count) ==
    /\ pc = "idle"
    /\ LET entry == resetIfStopped(stalled_status)
           next_message == getNextMessage(messages, current)
           call == [Call("consume") EXCEPT
                        !.tp = topic_partition,
                        !.stopEntry = stopped,
                        !.afterStall = /\ lastCall.op = "consume"
                                       /\ lastCall.pulled
                                       /\ ~lastCall.stopCheck
                                       /\ GoodIdsOf(lastCall.new) = {}
                                       /\ ~SamePartition(lastCall.tp, topic_partition)]
       IN
       IF polledDataUnusable(topic_partition)
       THEN /\ stalled_status' = entry
            /\ lastCall' = call
            /\ UNCHANGED <<current, pc, hist>>
       ELSE IF hasMorePolledMessages /\ next_message.ret # 0
       THEN /\ stalled_status' = entry
            /\ current' = next_message.current
            /\ lastCall' = [call EXCEPT !.ret = next_message.ret]
            /\ hist' = [hist EXCEPT !.kept = @ \ {next_message.ret}]
            /\ UNCHANGED pc
       ELSE /\ stalled_status' = "NO_MESSAGES_RETURNED"
            /\ IF HasQueue(queues, topic_partition)
               THEN /\ pc' = "pull"
                    /\ lastCall' = [call EXCEPT !.count = message_count]
               ELSE /\ lastCall' = [call EXCEPT !.threw = TRUE]
                    /\ UNCHANGED pc
            /\ UNCHANGED <<current, hist>>
    /\ UNCHANGED <<assignment, needs_offset_update, queues, messages, stopped, tries, nextId>>
    /\ UNCHANGED client

\* consume from the return of consume_batch with new_messages to its own return
ConsumeFinish(new_messages) ==
    /\ pc = "pull"
    /\ nextId + Len(new_messages) - 1 <= MaxMsgId
    /\ nextId' = nextId + Len(new_messages)
    /\ pc' = "idle"
    /\ LET check == resetIfStopped(stalled_status)
           call == [lastCall EXCEPT !.count = 0, !.pulled = TRUE, !.new = new_messages,
                                    !.stopCheck = stopped]
           filtered == filterMessageErrors(new_messages, 1)
           next_message == getNextMessage(filtered.messages, filtered.current)
           replaced == [hist EXCEPT !.stale = FALSE, !.kept = @ \cup GoodIdsOf(new_messages)]
       IN
       IF check = "CONSUMER_STOPPED"
       THEN /\ stalled_status' = check
            /\ lastCall' = call
            /\ UNCHANGED <<messages, current, hist>>
       ELSE IF new_messages = <<>>
       THEN /\ stalled_status' = check
            /\ lastCall' = call
            /\ UNCHANGED <<messages, current, hist>>
       ELSE IF filtered.current = Len(filtered.messages) + 1
       THEN /\ messages' = filtered.messages
            /\ current' = filtered.current
            /\ stalled_status' = "ERRORS_RETURNED"
            /\ lastCall' = call
            /\ hist' = replaced
       ELSE /\ messages' = filtered.messages
            /\ current' = next_message.current
            /\ stalled_status' = "NOT_STALLED"
            /\ lastCall' = [call EXCEPT !.ret = next_message.ret]
            /\ hist' = [replaced EXCEPT !.kept = @ \ {next_message.ret}]
    /\ UNCHANGED <<assignment, needs_offset_update, queues, stopped, tries>>
    /\ UNCHANGED client

\* --------------------------------------------------------------------- commit
CommitOutcomes == {"ok", "no_offset", "error"}

\* the outcomes of the consumer->commit calls one commit can make: the broker's
\* answers up to the first that is not an error, max_retries of them at most
CommitRuns ==
    {o \in UNION {[1..n -> CommitOutcomes] : n \in 1..max_retries} :
        \A i \in 1..(Len(o) - 1) : o[i] = "error"}

\* the retry loop with RD_KAFKA_RESP_ERR__NO_OFFSET handled like any other error
RECURSIVE CommitLoopNoOffsetRetried(_, _, _)
CommitLoopNoOffsetRetried(outcomes, try_count, committed) ==
    IF try_count < max_retries /\ ~committed /\ try_count < Len(outcomes)
    THEN CommitLoopNoOffsetRetried(outcomes, try_count + 1, outcomes[try_count + 1] = "ok")
    ELSE [attempts |-> try_count, committed |-> committed]

\* the retry loop from try_count on: the number of consumer->commit calls made
\* and the value of committed when the loop ends
RECURSIVE CommitLoop(_, _, _)
CommitLoop(outcomes, try_count, committed) ==
    IF try_count < max_retries /\ ~committed /\ try_count < Len(outcomes)
    THEN CommitLoop(outcomes, try_count + 1, outcomes[try_count + 1] \in {"ok", "no_offset"})
    ELSE [attempts |-> try_count, committed |-> committed]

\* commit of any partition: the partition only names what the client is asked
\* to commit and reaches no field of the consumer
Commit(outcomes) ==
    /\ pc = "idle"
    /\ LET end == CommitLoop(outcomes, 0, FALSE) IN
        \* the broker answered every call the loop made
        /\ end.committed \/ end.attempts = max_retries
        /\ lastCall' = [Call("commit") EXCEPT
                            !.attempts = end.attempts,
                            !.signal = IF end.committed THEN "KafkaCommits"
                                       ELSE "KafkaCommitFailures"]
    /\ UNCHANGED <<assignment, needs_offset_update, queues, messages, current, stalled_status,
                   stopped, pc, tries, nextId, hist>>
    /\ UNCHANGED client

\* ------------------------------------------------------------------ stop flag
\* another thread sets or clears the shared flag
SetStopped(value) ==
    /\ stopped # value
    /\ stopped' = value
    /\ UNCHANGED <<assignment, needs_offset_update, queues, messages, current, stalled_status,
                   pc, tries, nextId, lastCall, hist>>
    /\ UNCHANGED client

\* ---------------------------------------------------------------------- spec
\* std::optional<int64_t> message_count, 0 standing for std::nullopt
MessageCounts == 0..BatchSize

messages_to_pull(message_count) == IF message_count = 0 THEN BatchSize ELSE message_count

Next ==
    \/ \E l \in BrokerLists : AssignmentCallback(l)
    \/ RevocationCallback
    \/ PollEventsBegin
    \/ \E msg \in {"none", "message"} : PollEventsPoll(msg)
    \/ \E l \in CallerLists : UpdateOffsets(l)
    \/ \E tp \in CallerPartitions, n \in MessageCounts : ConsumeBegin(tp, n)
    \/ \E b \in Batches(lastCall.tp, nextId, messages_to_pull(lastCall.count)) : ConsumeFinish(b)
    \/ \E o \in CommitRuns : Commit(o)
    \/ \E v \in BOOLEAN : SetStopped(v)

Spec == Init /\ [][Next]_vars

\* ---------------------------------------------------------- commit alone
\* one commit against a client whose answers to max_retries calls are fixed
\* beforehand, whatever they are: the answers after the first that is not an
\* error are there for a loop that would go on
CommitAnswers == [1..max_retries -> CommitOutcomes]

InitCommit ==
    /\ assignment = Nullopt
    /\ needs_offset_update \in BOOLEAN
    /\ queues = {}
    /\ messages = <<>>
    /\ current = 1
    /\ stalled_status \in StalledStatus
    /\ stopped = FALSE
    /\ pc = "idle"
    /\ tries = 0
    /\ nextId = 1
    /\ lastCall = NoCall
    /\ hist = NoHist
    /\ commit_answers \in CommitAnswers
    /\ teardown = NoTeardown

NextCommit == lastCall.op = "none" /\ Commit(commit_answers)

SpecCommit == InitCommit /\ [][NextCommit]_vars

\* ------------------------------------------------------------- destructor
\* what consumer->poll(100ms) returns to the drain: no message, a message without
\* error, an end-of-partition message, a message with one of two other errors
DrainMessages == {"none", "message", "PARTITION_EOF", "ERR_A", "ERR_B"}

\* msg.get_error() of a polled message
get_error(msg) == IF msg = "message" THEN "NO_ERROR" ELSE msg

\* what consumer->get_subscription() does: returns no topic, returns the
\* subscribed topics, throws a cppkafka::HandleException
Subscriptions == {"empty", "subscribed", "throws"}

\* the clock steps between two reads
ClockAdvances == {ClockTickMs * k : k \in 1..MaxPollTicks}

\* one iteration of the drain loop with >= for > in the test of the budget
drainIterationAtBudget(last_error, msg, elapsed) ==
    LET error == get_error(msg) IN
    IF msg = "none"
    THEN [pc |-> "done", last_error |-> last_error, ended |-> "no_message"]
    ELSE IF error # "NO_ERROR" /\ (msg = "PARTITION_EOF" \/ error = last_error)
    THEN [pc |-> "done", last_error |-> last_error,
          ended |-> IF msg = "PARTITION_EOF" THEN "eof" ELSE "repeated_error"]
    ELSE IF elapsed >= DRAIN_TIMEOUT_MS
    THEN [pc |-> "done", last_error |-> error, ended |-> "timeout"]
    ELSE [pc |-> "poll", last_error |-> error, ended |-> "none"]

\* one iteration of the loop of drainConsumerQueue: msg is what the poll
\* returned and elapsed is ts - start_time
drainIteration(last_error, msg, elapsed) ==
    LET error == get_error(msg) IN
    IF msg = "none"
    THEN [pc |-> "done", last_error |-> last_error, ended |-> "no_message"]
    ELSE IF error # "NO_ERROR" /\ (msg = "PARTITION_EOF" \/ error = last_error)
    THEN [pc |-> "done", last_error |-> last_error,
          ended |-> IF msg = "PARTITION_EOF" THEN "eof" ELSE "repeated_error"]
    ELSE IF elapsed > DRAIN_TIMEOUT_MS
    THEN [pc |-> "done", last_error |-> error, ended |-> "timeout"]
    ELSE [pc |-> "poll", last_error |-> error, ended |-> "none"]

\* ~KafkaConsumer2 is entered and asks for the subscription
DestructorBegin(subscription) ==
    /\ teardown.pc = "alive"
    /\ pc = "idle"
    /\ teardown' = [teardown EXCEPT
                        !.pc = IF subscription = "subscribed" THEN "unsubscribe" ELSE "done",
                        !.ended = CASE subscription = "subscribed" -> "none"
                                    [] subscription = "empty" -> "not_subscribed"
                                    [] OTHER -> "exception_logged"]
    /\ UNCHANGED <<assignment, needs_offset_update, queues, messages, current, stalled_status,
                   stopped, pc, tries, nextId, lastCall, hist, commit_answers>>

\* consumer->unsubscribe() returns or throws a HandleException, which is logged;
\* drainConsumerQueue is entered and reads start_time
Unsubscribe(throws) ==
    /\ teardown.pc = "unsubscribe"
    /\ teardown' = [teardown EXCEPT !.pc = "poll", !.elapsed = 0, !.last_error = "NO_ERROR"]
    /\ UNCHANGED <<assignment, needs_offset_update, queues, messages, current, stalled_status,
                   stopped, pc, tries, nextId, lastCall, hist, commit_answers>>

\* one iteration of the drain loop: the poll returns msg and the clock has
\* advanced by dt since it was last read
DrainPoll(msg, dt) ==
    /\ teardown.pc = "poll"
    /\ LET ts == teardown.elapsed + dt
           after == drainIteration(teardown.last_error, msg, ts)
       IN teardown' = [teardown EXCEPT !.pc = after.pc, !.elapsed = ts, !.msg = msg,
                                       !.last_error = after.last_error, !.ended = after.ended]
    /\ UNCHANGED <<assignment, needs_offset_update, queues, messages, current, stalled_status,
                   stopped, pc, tries, nextId, lastCall, hist, commit_answers>>

NextDrain ==
    \/ \E subscription \in Subscriptions : DestructorBegin(subscription)
    \/ \E throws \in BOOLEAN : Unsubscribe(throws)
    \/ \E msg \in DrainMessages, dt \in ClockAdvances : DrainPoll(msg, dt)

\* the thread that runs the destructor goes on, and every call of the client
\* made by the destructor returns
SpecDrain == Init /\ [][NextDrain]_vars /\ WF_vars(NextDrain)

\* ------------------------------------------------------------ step names
\* a step of one of the two rebalance callbacks
CallbackStep == pc = "events" /\ pc' = "events" /\ tries' = tries

\* a step that is a whole updateOffsets call
UpdateOffsetsStep == pc = "idle" /\ pc' = "idle" /\ lastCall'.op = "updateOffsets"

\* (topic, partition_id) of the partitions currently assigned, none when the
\* assignment is std::nullopt
AssignedParts == IF assignment.has_value THEN PartsOfList(assignment.value) ELSE {}

OneEntryPerPartition(ks) == \A a, b \in ks : SamePartition(a, b) => a = b

\* ------------------------------------------------------------------ claims
\* C1: the assignment is std::nullopt exactly when no assignment callback has
\* run since the last revocation callback (or since construction), and only a
\* step of one of the two callbacks changes whether it is std::nullopt.
C1_AssignmentNoneIffNotReceived ==
    /\ [](assignment.has_value <=> hist.lastChange = "assigned")
    /\ [][assignment'.has_value # assignment.has_value => CallbackStep]_vars

\* an updateOffsets has run after a revocation and the assignment is still std::nullopt
C1_Witness ==
    /\ hist.lastChange = "revoked"
    /\ ~assignment.has_value
    /\ pc = "idle"
    /\ lastCall.op = "updateOffsets"
    /\ queues # {}

\* C2: from a rebalance callback until the next updateOffsets call
\* needs_offset_update is true in every state, and only an updateOffsets step
\* takes it from true to false.
C2_NeedsOffsetUpdateUntilUpdate ==
    /\ [](hist.lastChange # "none" /\ ~hist.updated => needs_offset_update)
    /\ [][needs_offset_update /\ ~needs_offset_update' => UpdateOffsetsStep]_vars

\* a consume has pulled and a commit has run since the last callback, no
\* updateOffsets has, and the flag is still set
C2_Witness ==
    /\ hist.lastChange = "revoked"
    /\ ~hist.updated
    /\ needs_offset_update
    /\ pc = "idle"
    /\ lastCall.op = "commit"
    /\ messages # <<>>

\* C3 as stated: in every state after an assignment change the keys of the
\* queue set are, by (topic, partition_id), the partition list of the last
\* assignment callback, that is the currently assigned partitions, one entry each.
C3_Original ==
    hist.lastChange # "none" =>
        /\ OneEntryPerPartition(queues)
        /\ PartsOfKeys(queues) = AssignedParts

\* C3 amended: the same in every state after an assignment change up to the
\* next assignment change or the next updateOffsets call.
C3_QueueSetUntilUpdate ==
    hist.lastChange # "none" /\ ~hist.updated =>
        /\ OneEntryPerPartition(queues)
        /\ PartsOfKeys(queues) = AssignedParts

\* two partitions are assigned, no updateOffsets has run since, and a consume
\* has pulled from one of the two queues
C3_Witness ==
    /\ hist.lastChange = "assigned"
    /\ ~hist.updated
    /\ Cardinality(queues) = 2
    /\ pc = "idle"
    /\ lastCall.op = "consume"
    /\ lastCall.pulled

\* ------------------------------------------------------- consume: names
\* a step in which consume is entered: it returns, throws or blocks in consume_batch
ConsumeEntryStep ==
    /\ pc = "idle"
    /\ pc' \in {"idle", "pull"}
    /\ stopped' = stopped
    /\ lastCall'.op = "consume"

\* a step in which consume_batch returns and consume runs to its return
ConsumeFinishStep == pc = "pull" /\ pc' = "idle"

\* a consume call has returned or thrown and nothing was called since
Consumed == pc = "idle" /\ lastCall.op = "consume"

\* the cursor points at an unread message
Unread == current <= Len(messages)

\* the message at the cursor is of the partition of tp
AtCursorOf(tp) ==
    /\ Unread
    /\ messages[current].topic = tp.topic
    /\ messages[current].partition_id = tp.partition_id

\* the payloads of the batch at or after the cursor
RemainingIds == {messages[i].id : i \in current..Len(messages)}

\* the first message of a batch that carries no error, 0 when there is none
FirstGood(msgs) ==
    IF GoodIdsOf(msgs) = {} THEN 0
    ELSE msgs[CHOOSE i \in 1..Len(msgs) :
                 ~msgs[i].err /\ \A j \in 1..(i - 1) : msgs[j].err].id

\* C4 as stated, for a partition that has a queue: a consume entered with the
\* stop flag set returns nothing, leaves CONSUMER_STOPPED and pulls from no queue.
C4_NoPullWhenStoppedAtEntry ==
    Consumed /\ lastCall.stopEntry /\ HasQueue(queues, lastCall.tp) =>
        /\ lastCall.ret = 0
        /\ stalled_status = "CONSUMER_STOPPED"
        /\ ~lastCall.pulled

\* C5: when the stop flag is clear at the entry of consume and set at the check
\* after consume_batch, consume returns nothing with CONSUMER_STOPPED whatever
\* consume_batch returned, and the batch and the cursor are those of before the call.
C5_StoppedDuringPull ==
    [][/\ (ConsumeEntryStep /\ pc' = "pull" => messages' = messages /\ current' = current)
       /\ (ConsumeFinishStep /\ ~lastCall.stopEntry /\ stopped =>
              /\ lastCall'.ret = 0
              /\ ~lastCall'.threw
              /\ stalled_status' = "CONSUMER_STOPPED"
              /\ messages' = messages
              /\ current' = current)]_vars

\* the flag was set during a pull that returned messages without error
C5_Witness ==
    /\ Consumed
    /\ lastCall.pulled
    /\ ~lastCall.stopEntry
    /\ lastCall.stopCheck
    /\ GoodIdsOf(lastCall.new) # {}

\* C6: with the stop flag clear, a pull that yields n messages without error
\* makes them the batch and returns the first; each further consume for that
\* partition returns the message at the cursor and moves the cursor by one
\* without pulling; the consume that finds the cursor at the end pulls again.
C6_BatchServedInOrder ==
    [][/\ (/\ ConsumeFinishStep
           /\ ~stopped
           /\ lastCall'.new # <<>>
           /\ GoodIdsOf(lastCall'.new) = IdsOf(lastCall'.new)
           => /\ messages' = lastCall'.new
              /\ current' = 2
              /\ lastCall'.ret = lastCall'.new[1].id)
       /\ (/\ ConsumeEntryStep
           /\ ~stopped
           /\ stalled_status = "NOT_STALLED"
           /\ AtCursorOf(lastCall'.tp)
           => /\ pc' = "idle"
              /\ lastCall'.ret = messages[current].id
              /\ current' = current + 1
              /\ messages' = messages)
       /\ (/\ ConsumeEntryStep
           /\ ~stopped
           /\ ~Unread
           /\ HasQueue(queues, lastCall'.tp)
           => pc' = "pull")]_vars

\* a batch of BatchSize messages without error was served to its end, one
\* message a call, and the next consume for the partition is pulling again
C6_Witness ==
    /\ pc = "pull"
    /\ ~stopped
    /\ ~lastCall.stopEntry
    /\ Len(messages) = BatchSize
    /\ current = Len(messages) + 1
    /\ messages[1].partition_id = lastCall.tp.partition_id
    /\ stalled_status = "NO_MESSAGES_RETURNED"

\* C7: a consume for a partition other than that of the message at the cursor
\* returns nothing, pulls nothing and leaves the batch and the cursor as they
\* were; a consume for the partition of the message at the cursor returns it.
C7_OtherPartitionLeavesBatch ==
    [][/\ (ConsumeEntryStep /\ Unread /\ ~AtCursorOf(lastCall'.tp) =>
              /\ pc' = "idle"
              /\ lastCall'.ret = 0
              /\ ~lastCall'.threw
              /\ messages' = messages
              /\ current' = current)
       /\ (ConsumeEntryStep /\ AtCursorOf(lastCall'.tp) =>
              /\ pc' = "idle"
              /\ lastCall'.ret = messages[current].id)]_vars

\* a consume for the other partition has returned nothing and the unread
\* message is still at the cursor
C7_Witness ==
    /\ Consumed
    /\ lastCall.ret = 0
    /\ ~lastCall.pulled
    /\ Unread
    /\ ~AtCursorOf(lastCall.tp)
    /\ HasQueue(queues, lastCall.tp)

\* C8 as stated: every non-error message a pull handed to consume was returned
\* or is in the batch at or after the cursor, unless initializeQueues cleared it.
C8_Original ==
    /\ hist.kept \subseteq RemainingIds
    /\ (Consumed /\ lastCall.pulled =>
            GoodIdsOf(lastCall.new) \subseteq ({lastCall.ret} \cup RemainingIds))

\* C8 amended: the same, unless the stop flag was found set at the check after
\* the pull, in which case the pulled messages are discarded.
C8_NoLossUnlessStopped ==
    /\ hist.kept \subseteq RemainingIds
    /\ (Consumed /\ lastCall.pulled /\ ~lastCall.stopCheck =>
            GoodIdsOf(lastCall.new) \subseteq ({lastCall.ret} \cup RemainingIds))

\* the stop flag was set at the entry of a consume and cleared before its pull
\* returned: one pulled message was returned and another waits at the cursor
C8_Witness ==
    /\ Consumed
    /\ lastCall.pulled
    /\ lastCall.stopEntry
    /\ ~lastCall.stopCheck
    /\ lastCall.ret # 0
    /\ hist.kept # {}

\* C9 as stated: a consume for a partition that has a queue, entered with the
\* stop flag clear, pulls from that queue unless it returns a message of its
\* own batch, and when the pull is not discarded it returns the first message
\* without error, whatever the state of the other partition.
C9_Original ==
    /\ (Consumed /\ ~lastCall.stopEntry /\ HasQueue(queues, lastCall.tp) /\ lastCall.ret = 0 =>
            lastCall.pulled)
    /\ (Consumed /\ lastCall.pulled /\ ~lastCall.stopCheck =>
            lastCall.ret = FirstGood(lastCall.new))

\* C9 amended: the same unless the cursor points at an unread message of
\* another partition: then consume returns nothing without pulling.
C9_OnlyUnreadBatchBlocks ==
    /\ (Consumed /\ ~lastCall.stopEntry /\ HasQueue(queues, lastCall.tp) /\ lastCall.ret = 0 =>
            \/ lastCall.pulled
            \/ Unread /\ ~AtCursorOf(lastCall.tp))
    /\ (Consumed /\ lastCall.pulled /\ ~lastCall.stopCheck =>
            lastCall.ret = FirstGood(lastCall.new))

\* both partitions have a queue, the pull of one of them returned nothing or
\* only errors, and the next consume, for the other, pulled and returned a message
C9_Witness ==
    /\ Consumed
    /\ lastCall.afterStall
    /\ lastCall.pulled
    /\ lastCall.ret # 0
    /\ Cardinality(queues) = 2

\* C10 as stated: no consume returns a payload of the batch that was current
\* when the revocation callback ran.
C10_NoDeliveryAfterRevocation ==
    Consumed /\ lastCall.ret # 0 => ~hist.stale

\* C11: the payload a consume returns is that of a message whose topic and
\* partition_id are those of the partition consume was called with: it is the
\* message the cursor has just passed.
C11_PayloadOfRequestedPartition ==
    Consumed /\ lastCall.ret # 0 =>
        /\ current > 1
        /\ messages[current - 1].id = lastCall.ret
        /\ messages[current - 1].topic = lastCall.tp.topic
        /\ messages[current - 1].partition_id = lastCall.tp.partition_id

\* both partitions are assigned and have a queue, and this consume is served
\* from the batch without a pull
C11_Witness ==
    /\ Consumed
    /\ lastCall.ret # 0
    /\ ~lastCall.pulled
    /\ hist.lastChange = "assigned"
    /\ Cardinality(queues) = 2

\* the calls of a commit that the client answers with something else than an error
NotErrors == {i \in 1..Len(commit_answers) : commit_answers[i] # "error"}

\* C12: whatever the client answers, commit makes at most 5 calls and none
\* after the first that succeeds or reports no offset to commit; it counts one
\* KafkaCommitFailures after exactly 5 calls when every call failed otherwise,
\* and one KafkaCommits in every other case.
C12_CommitBoundedRetries ==
    lastCall.op = "commit" =>
        /\ lastCall.attempts <= 5
        /\ IF \A i \in 1..5 : commit_answers[i] = "error"
           THEN /\ lastCall.attempts = 5
                /\ lastCall.signal = "KafkaCommitFailures"
           ELSE /\ lastCall.attempts \in NotErrors
                /\ \A i \in NotErrors : lastCall.attempts <= i
                /\ lastCall.signal = "KafkaCommits"

\* four calls failed and the fifth reported no offset to commit
C12_Witness ==
    /\ lastCall.op = "commit"
    /\ lastCall.attempts = 5
    /\ lastCall.signal = "KafkaCommits"
    /\ commit_answers[5] = "no_offset"

\* a step of the revocation callback
RevocationStep == CallbackStep /\ stopped' = stopped /\ hist'.lastChange = "revoked"

\* C13: a revocation callback that runs with a non-empty queue set leaves the
\* queue set empty, the assignment std::nullopt and needs_offset_update true,
\* and the batch, the cursor and the stall status as they were.
C13_RevocationFrame ==
    [][RevocationStep /\ queues # {} =>
          /\ queues' = {}
          /\ ~assignment'.has_value
          /\ needs_offset_update'
          /\ messages' = messages
          /\ current' = current
          /\ stalled_status' = stalled_status]_vars

\* the revocation callback has just run while a pulled batch had an unread message
C13_Witness ==
    /\ pc = "events"
    /\ hist.lastChange = "revoked"
    /\ hist.stale
    /\ Unread
    /\ queues = {}
    /\ ~assignment.has_value
    /\ needs_offset_update
    /\ stalled_status = "NOT_STALLED"

\* a step that is one iteration of the drain loop
DrainStep == teardown.pc = "poll"

\* C14: the destructor ends, whatever the polls of the drain return; the drain
\* ends at the first poll that returns no message, an end-of-partition message
\* or the error of the message polled just before, and otherwise at the first
\* iteration that reads more than 5 seconds on the clock; no exception leaves
\* the destructor.
C14_DrainTerminates ==
    /\ <>(teardown.pc = "done")
    /\ [](~teardown.escaped)
    /\ [][DrainStep =>
            LET msg == teardown'.msg IN
            /\ (teardown'.pc = "done") <=>
                   \/ msg \in {"none", "PARTITION_EOF"}
                   \/ msg \in {"ERR_A", "ERR_B"} /\ msg = teardown.last_error
                   \/ teardown'.elapsed > 5000
            /\ (teardown'.pc # "done") => teardown'.pc = "poll"
            /\ teardown.elapsed <= 5000]_vars

\* the drain was ended by the clock after messages with alternating errors
C14_Witness ==
    /\ teardown.pc = "done"
    /\ teardown.ended = "timeout"
    /\ teardown.elapsed > 5000
    /\ teardown.msg \in {"ERR_A", "ERR_B"}

\* C15 as stated: when a consume has returned a payload the stall status is
\* NOT_STALLED, also when the payload was served from the batch without a pull
\* and when the stop flag was set at the entry.
C15_PayloadImpliesNotStalled ==
    Consumed /\ lastCall.ret # 0 => stalled_status = "NOT_STALLED"

\* C16: after a pull of m messages that is not discarded, the batch is the
\* messages without error in the order of the pull, m - k of them when k carry
\* an error; the cursor was put at the start, so that the call returns the
\* first of them; with k = 0 the batch is the pulled one.
C16_FilterKeepsGoodInOrder ==
    Consumed /\ lastCall.pulled /\ ~lastCall.stopCheck /\ lastCall.new # <<>> =>
        LET new == lastCall.new
            m == Len(new)
            k == Cardinality({i \in 1..m : new[i].err})
        IN /\ Len(messages) = m - k
           /\ \A i \in 1..Len(messages) : ~messages[i].err
           /\ IdsOf(messages) = GoodIdsOf(new)
           /\ \A i, j \in 1..Len(messages) : i < j => messages[i].id < messages[j].id
           /\ (k = 0 => messages = new)
           /\ (m - k > 0 => lastCall.ret = messages[1].id /\ current = 2)
           /\ (m - k = 0 => lastCall.ret = 0 /\ current = 1)

\* a pull of two messages, the first with an error: the batch is the second
\* message and the call returned it
C16_Witness ==
    /\ Consumed
    /\ lastCall.pulled
    /\ ~lastCall.stopCheck
    /\ Len(lastCall.new) = 2
    /\ lastCall.new[1].err
    /\ ~lastCall.new[2].err
    /\ Len(messages) = 1
    /\ lastCall.ret = lastCall.new[2].id

\* C17: a consume that pulled and returns nothing leaves the reason in the
\* stall status: CONSUMER_STOPPED when the stop flag was set at the check after
\* the pull; NO_MESSAGES_RETURNED when the pull returned no message, the batch
\* and the cursor staying as they were; ERRORS_RETURNED when every pulled
\* message carried an error, the batch then being empty.
C17_StallReason ==
    [][ConsumeFinishStep /\ lastCall'.ret = 0 =>
          IF stopped
          THEN stalled_status' = "CONSUMER_STOPPED"
          ELSE IF lastCall'.new = <<>>
          THEN /\ stalled_status' = "NO_MESSAGES_RETURNED"
               /\ messages' = messages
               /\ current' = current
          ELSE /\ GoodIdsOf(lastCall'.new) = {}
               /\ stalled_status' = "ERRORS_RETURNED"
               /\ messages' = <<>>]_vars

\* a pull that returned only messages with errors, on top of a batch that had
\* been read to its end
C17_Witness ==
    /\ Consumed
    /\ lastCall.pulled
    /\ ~lastCall.stopCheck
    /\ lastCall.new # <<>>
    /\ lastCall.ret = 0
    /\ stalled_status = "ERRORS_RETURNED"
    /\ messages = <<>>
    /\ nextId > Len(lastCall.new) + 1

\* C18: updateOffsets(L), from any state, leaves needs_offset_update false,
\* the stall status NOT_STALLED, one queue for each partition of L and no
\* other, the batch empty with the cursor at its end, and the assignment as
\* it was.
C18_UpdateOffsetsEffect ==
    [][UpdateOffsetsStep =>
          LET L == lastCall'.list IN
          /\ ~needs_offset_update'
          /\ stalled_status' = "NOT_STALLED"
          /\ queues' = {L[i] : i \in 1..Len(L)}
          /\ OneEntryPerPartition(queues')
          /\ PartsOfKeys(queues') = PartsOfList(L)
          /\ messages' = <<>>
          /\ current' = Len(messages') + 1
          /\ assignment' = assignment]_vars

\* two partitions are assigned and updateOffsets was called with one of them
\* while the consumer was stopped
C18_Witness ==
    /\ pc = "idle"
    /\ lastCall.op = "updateOffsets"
    /\ Len(lastCall.list) = 1
    /\ assignment.has_value
    /\ Len(assignment.value) = 2
    /\ stopped
    /\ nextId > 1

\* a step of the assignment callback
AssignmentStep == CallbackStep /\ stopped' = stopped /\ hist'.lastChange = "assigned"

\* C19: the assignment callback and updateOffsets leave the batch empty; the
\* batch changes in no other step than these and the pull of a consume, which
\* puts messages of that pull in it; and a payload a consume returns is the
\* message at the cursor of the batch or a message of the pull it has just
\* made, produced by the broker after the call was entered. So no payload
\* pulled before the callback or the updateOffsets is returned after it.
C19_BatchClearedOnAssignAndUpdate ==
    [][/\ (AssignmentStep \/ UpdateOffsetsStep => messages' = <<>> /\ current' = 1)
       /\ (messages' # messages =>
              \/ AssignmentStep
              \/ UpdateOffsetsStep
              \/ ConsumeFinishStep /\ IdsOf(messages') \subseteq IdsOf(lastCall'.new))
       /\ (ConsumeEntryStep /\ lastCall'.ret # 0 =>
              Unread /\ lastCall'.ret = messages[current].id)
       /\ (ConsumeFinishStep /\ lastCall'.ret # 0 =>
              /\ lastCall'.ret \in IdsOf(lastCall'.new)
              /\ lastCall'.ret >= nextId)]_vars

\* after messages were pulled and an assignment callback ran, a consume had
\* to pull again and returned a message of that pull
C19_Witness ==
    /\ Consumed
    /\ hist.lastChange = "assigned"
    /\ ~hist.updated
    /\ lastCall.pulled
    /\ lastCall.ret # 0
    /\ lastCall.new[1].id > 1

\* C20: a consume entered with the stop flag clear, no unread message in the
\* batch and no queue for its partition throws from the lookup of the queue:
\* it returns nothing, pulls nothing, leaves the batch and the cursor as they
\* were and the stall status NO_MESSAGES_RETURNED.
C20_NoQueueThrows ==
    [][/\ ConsumeEntryStep
       /\ ~stopped
       /\ ~Unread
       /\ <<lastCall'.tp.topic, lastCall'.tp.partition_id>> \notin PartsOfKeys(queues)
       => /\ lastCall'.threw
          /\ pc' = "idle"
          /\ ~lastCall'.pulled
          /\ lastCall'.ret = 0
          /\ messages' = messages
          /\ current' = current
          /\ stalled_status' = "NO_MESSAGES_RETURNED"]_vars

\* after a revocation, a consume for the partition whose batch had been read
\* to its end threw
C20_Witness ==
    /\ Consumed
    /\ lastCall.threw
    /\ ~lastCall.stopEntry
    /\ hist.lastChange = "revoked"
    /\ queues = {}
    /\ messages # <<>>
    /\ ~Unread
    /\ stalled_status = "NO_MESSAGES_RETURNED"

====
